---------------------------- MODULE Spec2Model ----------------------------
(***************************************************************************)
(* State-machine model of RacingData_Scraper.py: a sequential batch job    *)
(* that walks a date range, probes each meet's landing page, discovers and *)
(* orders the race pages, extracts the horse rows of every race and writes *)
(* one file per meet plus one combined file.                               *)
(*                                                                         *)
(* Strings are sequences of tokens.  A token is either one character or a  *)
(* fixed fragment that no test of the program can split ("RaceNo=",        *)
(* "LocalResults.aspx", ...), so substring tests, split() and isdigit()    *)
(* are computed on the token sequence as Python computes them on the text. *)
(* Hrefs come from the browser's resolved href attribute and are ASCII.    *)
(*                                                                         *)
(* The browser and the site are the environment: every page load draws its *)
(* outcome (timeout, unexpected exception, rendered content) from the      *)
(* repertoire Serves(site), fixed at start-up.  `trace` is the log of what the    *)
(* run did (page loads with what the page rendered, sleeps, skips): the    *)
(* program prints a line at each of these points.                          *)
(*                                                                         *)
(* Of the 22 columns of a horse row, the model keeps the seven context     *)
(* columns and Placing; the other columns are copied from the cells of the *)
(* same table row in the same way as Placing.  to_csv is taken to succeed. *)
(***************************************************************************)
EXTENDS Integers, Sequences, FiniteSets, TLC

VARIABLES
    END_DATE,           \* last date of the range (START_DATE is fixed)
    site,               \* which repertoire the site serves from during this run
    disk0,              \* meet files on disk when the program starts
    fs,                 \* files on disk now
    pc,                 \* "dates" | "races" | "done" | "crashed"
    n,                  \* daterange's counter: single_date = START_DATE + n days
    meet_data_for_csv,  \* rows of the meet being scraped
    sorted_race_urls,   \* race URLs of the meet being scraped, in visiting order
    race_idx,           \* position of the race loop in sorted_race_urls
    all_meets_data,     \* rows of every meet written during this run
    writes,             \* the to_csv calls so far: <<[file, rows]>>
    trace               \* log of page loads, sleeps and skips

vars == <<END_DATE, site, disk0, fs, pc, n, meet_data_for_csv, sorted_race_urls,
          race_idx, all_meets_data, writes, trace>>

---------------------------------------------------------------------------
(* Bounds of the model *)

\* the date range is capped at MaxDays days
MaxDays == 2
\* SpecSort: links a landing page exposes
SortMaxLinks == 3
\* SpecRows: body rows a performance table holds
RowsMaxRows == 3
\* SpecMeet: links a landing page exposes, body rows a performance table holds
MeetMaxLinks == 2
MeetMaxRows == 3

---------------------------------------------------------------------------
(* Text *)

DigitChar == <<"0", "1", "2", "3", "4", "5", "6", "7", "8", "9">>

Digits == {DigitChar[i] : i \in 1..10}

DigitVal(c) == (CHOOSE i \in 1..10 : DigitChar[i] = c) - 1

Whitespace == {" ", "\n"}

RECURSIVE Strip(_)
\* str.strip(): leading and trailing whitespace removed
Strip(s) ==
    IF s = <<>> THEN <<>>
    ELSE IF Head(s) \in Whitespace THEN Strip(Tail(s))
    ELSE IF s[Len(s)] \in Whitespace THEN Strip(SubSeq(s, 1, Len(s) - 1))
    ELSE s

\* str.isdigit(): non-empty and every character a digit
IsDigit(s) == s # <<>> /\ \A i \in DOMAIN s : s[i] \in Digits

RECURSIVE ParseInt(_)
\* int(s) for a string of digits
ParseInt(s) ==
    IF s = <<>> THEN 0
    ELSE ParseInt(SubSeq(s, 1, Len(s) - 1)) * 10 + DigitVal(s[Len(s)])

\* `sep in s`
Contains(s, sep) == \E i \in DOMAIN s : s[i] = sep

\* s.split(sep)[-1]: the text after the last sep, all of s when there is none
SplitLast(s, sep) ==
    LET at == {i \in DOMAIN s : s[i] = sep}
        last == CHOOSE i \in at : \A j \in at : j <= i
    IN  IF at = {} THEN s ELSE SubSeq(s, last + 1, Len(s))

\* zero-padded decimal of width w (strftime's %d, %m, %Y)
RECURSIVE Pad(_, _)
Pad(v, w) == IF w = 0 THEN <<>> ELSE Pad(v \div 10, w - 1) \o <<DigitChar[(v % 10) + 1]>>

---------------------------------------------------------------------------
(* Dates *)

START_DATE == [year |-> 2019, month |-> 1, day |-> 1]

IsLeap(y) == (y % 4 = 0 /\ y % 100 # 0) \/ y % 400 = 0

DaysInMonth(y, m) ==
    IF m = 2 THEN (IF IsLeap(y) THEN 29 ELSE 28)
    ELSE IF m \in {4, 6, 9, 11} THEN 30 ELSE 31

\* d + timedelta(1)
NextDay(d) ==
    IF d.day < DaysInMonth(d.year, d.month) THEN [d EXCEPT !.day = d.day + 1]
    ELSE IF d.month < 12 THEN [year |-> d.year, month |-> d.month + 1, day |-> 1]
    ELSE [year |-> d.year + 1, month |-> 1, day |-> 1]

RECURSIVE AddDays(_, _)
\* d + timedelta(k)
AddDays(d, k) == IF k = 0 THEN d ELSE AddDays(NextDay(d), k - 1)

RECURSIVE DaysBetween(_, _)
\* (end_date - start_date).days, for start_date <= end_date
DaysBetween(start_date, end_date) ==
    IF start_date = end_date THEN 0 ELSE 1 + DaysBetween(NextDay(start_date), end_date)

\* daterange(start_date, end_date): the dates it yields, in order
daterange(start_date, end_date) ==
    [k \in 1..(DaysBetween(start_date, end_date) + 1) |-> AddDays(start_date, k - 1)]

RECURSIVE Strftime(_, _)
\* date.strftime(fmt); fmt is a sequence of directives and literal tokens
Strftime(d, fmt) ==
    IF fmt = <<>> THEN <<>>
    ELSE (CASE Head(fmt) = "%d" -> Pad(d.day, 2)
            [] Head(fmt) = "%m" -> Pad(d.month, 2)
            [] Head(fmt) = "%Y" -> Pad(d.year, 4)
            [] OTHER -> <<Head(fmt)>>) \o Strftime(d, Tail(fmt))

\* meet_date = single_date.strftime("%d/%m/%Y")
MeetDate(d) == Strftime(d, <<"%d", "/", "%m", "/", "%Y">>)

\* output_filename = f"races_{single_date.strftime('%Y-%m-%d')}.csv"
OutputFilename(d) == <<"races_">> \o Strftime(d, <<"%Y", "-", "%m", "-", "%d">>) \o <<".csv">>

CombinedFilename == <<"all_races_2019_to_2024.csv">>

---------------------------------------------------------------------------
(* URLs *)

BASE_URL_TEMPLATE ==
    <<"https://racing.hkjc.com/racing/information/English/racing/",
      "LocalResults.aspx", "?RaceDate=", "{date}">>

RECURSIVE Format(_, _)
\* template.format(date=value)
Format(template, value) ==
    IF template = <<>> THEN <<>>
    ELSE (IF Head(template) = "{date}" THEN value ELSE <<Head(template)>>)
         \o Format(Tail(template), value)

\* initial_url = BASE_URL_TEMPLATE.format(date=meet_date)
InitialUrl(meet_date) == Format(BASE_URL_TEMPLATE, meet_date)

\* if href and "LocalResults.aspx" in href and "ResultsAll.aspx" not in href
KeepHref(href) ==
    href # <<>> /\ Contains(href, "LocalResults.aspx") /\ ~Contains(href, "ResultsAll.aspx")

\* race_page_urls = {initial_url} plus every kept href
RacePageUrls(initial_url, hrefs) == {initial_url} \cup {h \in hrefs : KeepHref(h)}

\* the sort key: int(url.split("RaceNo=")[-1]) if "RaceNo=" in url and
\* url.split("RaceNo=")[-1].isdigit() else 0
RaceNoKey(url) ==
    IF Contains(url, "RaceNo=") /\ IsDigit(SplitLast(url, "RaceNo="))
    THEN ParseInt(SplitLast(url, "RaceNo="))
    ELSE 0

\* every sequence that holds each element of S once
Orderings(S) ==
    {p \in [1..Cardinality(S) -> S] : \A i, j \in DOMAIN p : i # j => p[i] # p[j]}

\* the mutant of SortedRaceUrls: list(race_page_urls) is not sorted at all
UnsortedRaceUrls(race_page_urls) == Orderings(race_page_urls)

\* sorted(list(race_page_urls), key=...): list() of a set comes in any order and
\* the sort is stable, so URLs of equal key may come out in any order
SortedRaceUrls(race_page_urls) ==
    {p \in Orderings(race_page_urls) :
        \A i, j \in DOMAIN p : i < j => RaceNoKey(p[i]) <= RaceNoKey(p[j])}

---------------------------------------------------------------------------
(* What a page renders *)

NA == <<"N/A">>

\* the XPaths of the five cells of the race info table
XHeader == ".//thead/tr/td[1]"
XDetails == ".//tbody/tr[2]/td[1]"
XSpecificName == ".//tbody/tr[3]/td[1]"
XGoing == ".//tbody/tr[2]/td[3]"
XCourse == ".//tbody/tr[3]/td[3]"

InfoCells == {XHeader, XDetails, XSpecificName, XGoing, XCourse}

\* the text the site renders in the cell at xpath x
CellText(x) == <<" ", x, "\n">>

\* a race info table: absent from the page, or present with the cells `found`
InfoTable(table, found) == [table |-> table, found |-> found]

FullInfo == InfoTable(TRUE, InfoCells)

AllInfos == {InfoTable(FALSE, {})} \cup {InfoTable(TRUE, found) : found \in SUBSET InfoCells}

\* the performance tables of at most k body rows whose rows have a number of
\* cells in `counts`; the site lists the finishers by placing
Bodies(k, counts) ==
    UNION {{[i \in 1..m |-> [cells |-> c[i], placing |-> <<" ", DigitChar[i + 1]>>]] :
                c \in [1..m -> counts]} : m \in 0..k}

\* a performance table of one body row of `count` cells
OneRow(count) == <<[cells |-> count, placing |-> <<" ", DigitChar[2]>>]>>

HOST == "https://racing.hkjc.com/racing/information/English/racing/"

\* hrefs of the race links of a landing page, as strftime formats of the meet's date
RaceLink(tail) ==
    <<HOST, "LocalResults.aspx", "?RaceDate=", "%Y", "/", "%m", "/", "%d",
      "&Racecourse=ST&", "RaceNo=">> \o tail

NoNumberLink ==
    <<HOST, "LocalResults.aspx", "?RaceDate=", "%Y", "/", "%m", "/", "%d", "&Racecourse=ST">>

SelfLink == <<HOST, "LocalResults.aspx", "?RaceDate=", "%d", "/", "%m", "/", "%Y">>

AggregateLink ==
    <<HOST, "ResultsAll.aspx", "?RaceDate=", "%Y", "/", "%m", "/", "%d",
      "&from=", "LocalResults.aspx">>

UpTo(S, k) == {T \in SUBSET S : Cardinality(T) <= k}

\* Spec: several dates; a landing page alone or with one race link, tables
\* empty or of one full row
MainSite ==
    [links  |-> {{}, {RaceLink(<<"2">>)}},
     infos  |-> {FullInfo},
     bodies |-> {<<>>, OneRow(12)}]

\* SpecSort: links of every shape
SortSite ==
    [links  |-> UpTo({RaceLink(<<"1">>), RaceLink(<<"2">>), RaceLink(<<"3">>),
                      RaceLink(<<"1", "0">>), RaceLink(<<"2", "&">>),
                      RaceLink(<<"3", "&", "RaceNo=", "1">>),
                      NoNumberLink, SelfLink, AggregateLink}, SortMaxLinks),
     infos  |-> {FullInfo},
     bodies |-> {<<>>}]

\* SpecRows: one page per meet, tables of every shape
RowsSite ==
    [links  |-> {{}},
     infos  |-> {FullInfo},
     bodies |-> Bodies(RowsMaxRows, {11, 12, 13})]

\* SpecMeet: several race pages per meet, tables of full rows and one short row
MeetSite ==
    [links  |-> UpTo({RaceLink(<<"1">>), RaceLink(<<"2">>), RaceLink(<<"3">>)}, MeetMaxLinks),
     infos  |-> {FullInfo},
     bodies |-> Bodies(MeetMaxRows, {12}) \cup {OneRow(11)}]

\* SpecInfo: a landing page alone or with one race link, info tables of every shape
InfoSite ==
    [links  |-> {{}, {RaceLink(<<"2">>)}},
     infos  |-> AllInfos,
     bodies |-> {<<>>, OneRow(12)}]

\* what the site may serve under each repertoire
Serves(s) ==
    CASE s = "main" -> MainSite
      [] s = "sort" -> SortSite
      [] s = "rows" -> RowsSite
      [] s = "info" -> InfoSite
      [] s = "meet" -> MeetSite

---------------------------------------------------------------------------
(* Extraction *)

\* get_safe_text(element, By.XPATH, value, default): the stripped text of the
\* cell at value; NoSuchElementException is caught and gives default
get_safe_text(element, value, default) ==
    IF value \in element.found THEN Strip(CellText(value)) ELSE default

\* the five values when nothing is found: ("N/A",) * 5
NoRaceInfo ==
    [RaceHeader |-> NA, RaceDetails |-> NA, RaceSpecificName |-> NA,
     RaceGoing |-> NA, RaceCourse |-> NA]

\* the mutant of RaceInfo: one missing cell drops the whole table
RaceInfoAllOrNothing(info) ==
    IF info.table /\ info.found = InfoCells
    THEN [RaceHeader       |-> get_safe_text(info, XHeader, NA),
          RaceDetails      |-> get_safe_text(info, XDetails, NA),
          RaceSpecificName |-> get_safe_text(info, XSpecificName, NA),
          RaceGoing        |-> get_safe_text(info, XGoing, NA),
          RaceCourse       |-> get_safe_text(info, XCourse, NA)]
    ELSE NoRaceInfo

\* general race information: all "N/A" when the info table is not found
\* (NoSuchElementException caught), else each cell by get_safe_text
RaceInfo(info) ==
    IF info.table
    THEN [RaceHeader       |-> get_safe_text(info, XHeader, NA),
          RaceDetails      |-> get_safe_text(info, XDetails, NA),
          RaceSpecificName |-> get_safe_text(info, XSpecificName, NA),
          RaceGoing        |-> get_safe_text(info, XGoing, NA),
          RaceCourse       |-> get_safe_text(info, XCourse, NA)]
    ELSE NoRaceInfo

MinCells == 12

\* the mutant of TooFewCells: a row of exactly 12 cells is dropped too
TooFewCellsOffByOne(cols) == cols.cells <= MinCells

\* if len(cols) < 12: continue
TooFewCells(cols) == cols.cells < MinCells

\* the mutant of HorseData: the row is tagged with the meet's landing URL
HorseDataLandingUrl(meet_date, race_url, meta, cols) ==
    [MeetDate         |-> meet_date,
     RaceURL          |-> InitialUrl(meet_date),
     RaceHeader       |-> meta.RaceHeader,
     RaceDetails      |-> meta.RaceDetails,
     RaceSpecificName |-> meta.RaceSpecificName,
     RaceGoing        |-> meta.RaceGoing,
     RaceCourse       |-> meta.RaceCourse,
     Placing          |-> Strip(cols.placing)]

\* horse_data of one table row
HorseData(meet_date, race_url, meta, cols) ==
    [MeetDate         |-> meet_date,
     RaceURL          |-> race_url,
     RaceHeader       |-> meta.RaceHeader,
     RaceDetails      |-> meta.RaceDetails,
     RaceSpecificName |-> meta.RaceSpecificName,
     RaceGoing        |-> meta.RaceGoing,
     RaceCourse       |-> meta.RaceCourse,
     Placing          |-> Strip(cols.placing)]

RECURSIVE HorseRows(_, _, _, _)
\* the loop over body_rows: the rows it appends to meet_data_for_csv
HorseRows(meet_date, race_url, meta, body_rows) ==
    IF body_rows = <<>> THEN <<>>
    ELSE (IF TooFewCells(Head(body_rows)) THEN <<>>
          ELSE <<HorseData(meet_date, race_url, meta, Head(body_rows))>>)
         \o HorseRows(meet_date, race_url, meta, Tail(body_rows))

---------------------------------------------------------------------------
(* The run *)

NoInfo == InfoTable(FALSE, {})

\* one line of the log
Event(ev, phase, day, url, outcome, links, info, body, emitted) ==
    [ev |-> ev, phase |-> phase, day |-> day, url |-> url, outcome |-> outcome,
     links |-> links, info |-> info, body |-> body, emitted |-> emitted]

\* driver.get(initial_url) and what came of it
LandingGet(day, initial_url, outcome, links) ==
    Event("get", "landing", day, initial_url, outcome, links, NoInfo, <<>>, 0)

\* driver.get(race_url) and what came of it
RaceGet(day, url, outcome, info, body, emitted) ==
    Event("get", "race", day, url, outcome, {}, info, body, emitted)

\* time.sleep(1)
Sleep(phase, day, url) == Event("sleep", phase, day, url, "", {}, NoInfo, <<>>, 0)

\* "File ... already exists. Skipping this date."
SkipLine(day) == Event("skip_existing", "", day, <<>>, "", {}, NoInfo, <<>>, 0)

Dates == daterange(START_DATE, END_DATE)

single_date == Dates[n]

meet_date == MeetDate(single_date)

output_filename == OutputFilename(single_date)

InitWith(s, days) ==
    /\ END_DATE \in {AddDays(START_DATE, k - 1) : k \in 1..days}
    /\ site = s
    /\ disk0 \in SUBSET {OutputFilename(Dates[k]) : k \in DOMAIN Dates}
    /\ fs = disk0
    /\ pc = "dates"
    /\ n = 1
    /\ meet_data_for_csv = <<>>
    /\ sorted_race_urls = <<>>
    /\ race_idx = 1
    /\ all_meets_data = <<>>
    /\ writes = <<>>
    /\ trace = <<>>

Init == InitWith("main", MaxDays)

InitSort == InitWith("sort", 1)

InitRows == InitWith("rows", 1)

InitInfo == InitWith("info", 1)

InitMeet == InitWith("meet", 1)

\* the top of the date loop, with a date left to process
AtDate == pc = "dates" /\ n <= Len(Dates)

\* the mutant of FileExists: the existence check never finds the file
FileNeverExists(files, filename) == FALSE

\* os.path.exists(output_filename)
FileExists(files, filename) == filename \in files

\* `continue` of the date loop
NextDate ==
    /\ n' = n + 1
    /\ pc' = "dates"
    /\ UNCHANGED <<END_DATE, site, disk0, fs, meet_data_for_csv, sorted_race_urls,
                   race_idx, all_meets_data, writes>>

\* the meet file already exists: skip the date
SkipExisting ==
    /\ AtDate
    /\ FileExists(fs, output_filename)
    /\ trace' = Append(trace, SkipLine(n))
    /\ NextDate

\* the wait for the results table or the no-race notice times out
LandingTimeout ==
    /\ AtDate
    /\ ~FileExists(fs, output_filename)
    /\ trace' = Append(trace, LandingGet(n, InitialUrl(meet_date), "timeout", {}))
    /\ NextDate

\* driver.get or the wait raises anything else: except Exception, continue
LandingError ==
    /\ AtDate
    /\ ~FileExists(fs, output_filename)
    /\ trace' = Append(trace, LandingGet(n, InitialUrl(meet_date), "error", {}))
    /\ NextDate

\* the 'No race meeting.' notice is on the page: sleep and skip the date
NoRaceDay ==
    /\ AtDate
    /\ ~FileExists(fs, output_filename)
    /\ trace' = trace \o <<LandingGet(n, InitialUrl(meet_date), "no_race", {}),
                           Sleep("landing", n, InitialUrl(meet_date))>>
    /\ NextDate

\* the run ends with an exception nobody catches
Crash ==
    /\ pc' = "crashed"
    /\ UNCHANGED <<END_DATE, site, disk0, fs, n, meet_data_for_csv, sorted_race_urls,
                   race_idx, all_meets_data, writes>>

\* a race day: collect the race links, sort them, enter the race loop
RaceDay ==
    /\ AtDate
    /\ ~FileExists(fs, output_filename)
    /\ \E fmts \in Serves(site).links :
         LET hrefs == {Strftime(single_date, f) : f \in fmts}
         IN  /\ sorted_race_urls' \in SortedRaceUrls(RacePageUrls(InitialUrl(meet_date), hrefs))
             /\ trace' = Append(trace, LandingGet(n, InitialUrl(meet_date), "race_day", hrefs))
    /\ meet_data_for_csv' = <<>>
    /\ race_idx' = 1
    /\ pc' = "races"
    /\ UNCHANGED <<END_DATE, site, disk0, fs, n, all_meets_data, writes>>

\* a race day whose link discovery raises (find_elements, get_attribute):
\* lines 96-124 are inside no try block that catches it
DiscoveryCrash ==
    /\ AtDate
    /\ ~FileExists(fs, output_filename)
    /\ trace' = Append(trace, LandingGet(n, InitialUrl(meet_date), "crash", {}))
    /\ Crash

\* the race loop, with a URL left to visit
AtRace == pc = "races" /\ race_idx <= Len(sorted_race_urls)

race_url == sorted_race_urls[race_idx]

\* the mutant of ContinueRace: `break` instead of `continue`
BreakRace(i, urls) == Len(urls) + 1

\* the race loop moves on to its next URL
ContinueRace(i, urls) == i + 1

\* the wait for the performance table times out: `continue`, before the sleep
RaceTimeout ==
    /\ AtRace
    /\ trace' = Append(trace, RaceGet(n, race_url, "timeout", NoInfo, <<>>, 0))
    /\ race_idx' = ContinueRace(race_idx, sorted_race_urls)
    /\ UNCHANGED <<END_DATE, site, disk0, fs, pc, n, meet_data_for_csv, sorted_race_urls,
                   all_meets_data, writes>>

\* driver.get(race_url) or the wait raises anything but TimeoutException
RaceLoadCrash ==
    /\ AtRace
    /\ trace' = Append(trace, RaceGet(n, race_url, "crash", NoInfo, <<>>, 0))
    /\ Crash

\* the race information lookups raise anything but NoSuchElementException
RaceInfoCrash ==
    /\ AtRace
    /\ \E info \in Serves(site).infos :
         trace' = Append(trace, RaceGet(n, race_url, "crash_info", info, <<>>, 0))
    /\ Crash

\* the mutant of SleepAfterRace: no delay after a race whose extraction raised
SleepAfterCleanRaceOnly(day, url, outcome) ==
    IF outcome = "ok" THEN <<Sleep("race", day, url)>> ELSE <<>>

\* time.sleep(1) at the end of the loop body, after the try/except of the extraction
SleepAfterRace(day, url, outcome) == <<Sleep("race", day, url)>>

\* the page loads: race information, then the body rows; `raised` says that the
\* extraction raised after `done` rows (0 also when the table lookup itself raised),
\* which except Exception catches; then the polite delay
ScrapeRace ==
    /\ AtRace
    /\ \E info \in Serves(site).infos, body \in Serves(site).bodies, raised \in BOOLEAN :
       \E done \in 0..Len(body) :
         /\ raised => (done < Len(body) \/ done = 0)
         /\ ~raised => done = Len(body)
         /\ LET rows == HorseRows(meet_date, race_url, RaceInfo(info), SubSeq(body, 1, done))
                outcome == IF raised THEN "error" ELSE "ok"
            IN  /\ meet_data_for_csv' = meet_data_for_csv \o rows
                /\ trace' = trace \o <<RaceGet(n, race_url, outcome, info, body, Len(rows))>>
                                  \o SleepAfterRace(n, race_url, outcome)
    /\ race_idx' = ContinueRace(race_idx, sorted_race_urls)
    /\ UNCHANGED <<END_DATE, site, disk0, fs, pc, n, sorted_race_urls, all_meets_data, writes>>

\* the mutant of ShouldWriteMeet: the meet file is written even when empty
AlwaysWriteMeet(rows) == TRUE

\* if meet_data_for_csv:
ShouldWriteMeet(rows) == rows # <<>>

\* the mutant of ExtendAll: the meet's rows are put in front
PrependAll(all, rows) == rows \o all

\* all_meets_data.extend(meet_data_for_csv)
ExtendAll(all, rows) == all \o rows

\* after the last race: write the meet file and extend all_meets_data, if any row
WriteMeet ==
    /\ pc = "races"
    /\ race_idx > Len(sorted_race_urls)
    /\ IF ShouldWriteMeet(meet_data_for_csv)
       THEN /\ writes' = Append(writes, [file |-> output_filename, rows |-> meet_data_for_csv])
            /\ fs' = fs \cup {output_filename}
            /\ all_meets_data' = ExtendAll(all_meets_data, meet_data_for_csv)
       ELSE UNCHANGED <<writes, fs, all_meets_data>>
    /\ n' = n + 1
    /\ pc' = "dates"
    /\ UNCHANGED <<END_DATE, site, disk0, meet_data_for_csv, sorted_race_urls, race_idx, trace>>

\* if all_meets_data:
ShouldWriteAll(all) == all # <<>>

\* the date loop is over: driver.quit(), then the combined file, if any row
Finish ==
    /\ pc = "dates"
    /\ n > Len(Dates)
    /\ IF ShouldWriteAll(all_meets_data)
       THEN /\ writes' = Append(writes, [file |-> CombinedFilename, rows |-> all_meets_data])
            /\ fs' = fs \cup {CombinedFilename}
       ELSE UNCHANGED <<writes, fs>>
    /\ pc' = "done"
    /\ UNCHANGED <<END_DATE, site, disk0, n, meet_data_for_csv, sorted_race_urls, race_idx,
                   all_meets_data, trace>>

Next ==
    \/ SkipExisting
    \/ LandingTimeout
    \/ LandingError
    \/ NoRaceDay
    \/ RaceDay
    \/ DiscoveryCrash
    \/ RaceTimeout
    \/ RaceLoadCrash
    \/ RaceInfoCrash
    \/ ScrapeRace
    \/ WriteMeet
    \/ Finish

Spec == Init /\ [][Next]_vars

SpecSort == InitSort /\ [][Next]_vars

SpecRows == InitRows /\ [][Next]_vars

SpecInfo == InitInfo /\ [][Next]_vars

SpecMeet == InitMeet /\ [][Next]_vars

---------------------------------------------------------------------------
(* Reading the log and the writes *)

Days == DOMAIN Dates

DayDate(k) == MeetDate(Dates[k])

DayFile(k) == OutputFilename(Dates[k])

\* positions in the log of the page loads of date k, by phase
LandingGets(k) ==
    {i \in DOMAIN trace : trace[i].ev = "get" /\ trace[i].phase = "landing" /\ trace[i].day = k}

RaceGets(k) ==
    {i \in DOMAIN trace : trace[i].ev = "get" /\ trace[i].phase = "race" /\ trace[i].day = k}

\* date k was classified has-races: the landing page loaded without the notice
HasRaces(k) == \E i \in LandingGets(k) : trace[i].outcome = "race_day"

\* date k was skipped: file already there, no-race notice, or the landing page failed
SkippedExisting(k) ==
    \E i \in DOMAIN trace : trace[i].ev = "skip_existing" /\ trace[i].day = k

Skipped(k) ==
    \/ SkippedExisting(k)
    \/ \E i \in LandingGets(k) : trace[i].outcome \in {"timeout", "error", "no_race"}

\* the to_csv calls that wrote the meet file of date k
MeetWrites(k) == {i \in DOMAIN writes : writes[i].file = DayFile(k)}

\* the number of rows the race pages of date k gave
Emitted(k) ==
    LET RECURSIVE Sum(_)
        Sum(S) == IF S = {} THEN 0
                  ELSE LET i == CHOOSE x \in S : TRUE
                       IN  trace[i].emitted + Sum(S \ {i})
    IN  Sum(RaceGets(k))

\* the rows held for date k: those of the meet in progress, or those written
KeptRows(k) ==
    IF k = n THEN LET date == DayDate(k)
                  IN  SelectSeq(meet_data_for_csv, LAMBDA r : r.MeetDate = date)
    ELSE IF MeetWrites(k) = {} THEN <<>>
    ELSE writes[CHOOSE i \in MeetWrites(k) : TRUE].rows

\* the rows held for date k that carry the URL url
KeptRowsOf(k, url) == SelectSeq(KeptRows(k), LAMBDA r : r.RaceURL = url)

\* the number of body rows of a performance table with at least 12 cells
FullRows(body) == Cardinality({i \in DOMAIN body : body[i].cells >= 12})

---------------------------------------------------------------------------
(* C1 *)

\* C1 as stated: when the run completes, every date classified has-races has
\* exactly one meet file written during the run, and every skipped date has none.
C1_OneFilePerRaceDay ==
    pc = "done" =>
        \A k \in Days :
            /\ HasRaces(k) => Cardinality(MeetWrites(k)) = 1
            /\ Skipped(k) => MeetWrites(k) = {}

\* C1 amended: when the run completes, a has-races date has exactly one meet file
\* written during the run if its race pages gave at least one row and none if
\* they gave no row; a skipped date has none.
C1_OneFilePerRaceDayWithRows ==
    pc = "done" =>
        \A k \in Days :
            /\ HasRaces(k) /\ Emitted(k) > 0 => Cardinality(MeetWrites(k)) = 1
            /\ HasRaces(k) /\ Emitted(k) = 0 => MeetWrites(k) = {}
            /\ Skipped(k) => MeetWrites(k) = {}
            /\ HasRaces(k) \/ Skipped(k)

C1_Witness ==
    /\ pc = "done"
    /\ \E k \in Days : HasRaces(k) /\ Emitted(k) > 0 /\ Cardinality(MeetWrites(k)) = 1
    /\ \E k \in Days : HasRaces(k) /\ Emitted(k) = 0 /\ MeetWrites(k) = {}

---------------------------------------------------------------------------
(* C2 *)

\* C2: a date whose meet file is on disk when the loop reaches it gets no page
\* load (landing or race), its file is not rewritten and no row of it enters an
\* accumulator; when every date's file is on disk the run loads no page at all.
C2_IdempotentSkip ==
    /\ \A k \in Days :
         DayFile(k) \in disk0 =>
            /\ LandingGets(k) = {} /\ RaceGets(k) = {}
            /\ MeetWrites(k) = {}
            /\ \A i \in DOMAIN meet_data_for_csv : meet_data_for_csv[i].MeetDate # DayDate(k)
            /\ \A i \in DOMAIN all_meets_data : all_meets_data[i].MeetDate # DayDate(k)
            /\ n > k => SkippedExisting(k)
    /\ (\A k \in Days : DayFile(k) \in disk0) =>
            \A i \in DOMAIN trace : trace[i].ev = "skip_existing"

C2_Witness ==
    /\ pc = "done"
    /\ Len(Dates) >= 2
    /\ DayFile(1) \in disk0 /\ SkippedExisting(1)
    /\ DayFile(2) \notin disk0 /\ Cardinality(MeetWrites(2)) = 1

---------------------------------------------------------------------------
(* C3 *)

\* the race number the claim gives each href the site serves: the integer after
\* the last "RaceNo=", 0 when there is none or it is not all digits
ClaimedRaceNo ==
    {<<RaceLink(<<"1">>), 1>>, <<RaceLink(<<"2">>), 2>>, <<RaceLink(<<"3">>), 3>>,
     <<RaceLink(<<"1", "0">>), 10>>, <<RaceLink(<<"2", "&">>), 0>>,
     <<RaceLink(<<"3", "&", "RaceNo=", "1">>), 1>>,
     <<NoNumberLink, 0>>, <<SelfLink, 0>>, <<AggregateLink, 0>>}

\* the claimed race number of each href, for the hrefs of date k
RaceNoOf(k) ==
    LET served == {<<Strftime(Dates[k], e[1]), e[2]>> : e \in ClaimedRaceNo}
    IN  [url \in {e[1] : e \in served} \cup {InitialUrl(DayDate(k))} |->
            IF \E e \in served : e[1] = url
            THEN (CHOOSE e \in served : e[1] = url)[2] ELSE 0]

\* the URLs the race loop of date k has to visit, from what the landing page exposed
UrlsToVisit(k) ==
    {InitialUrl(DayDate(k))} \cup
    UNION {trace[i].links \ {Strftime(Dates[k], AggregateLink)} : i \in LandingGets(k)}

\* the race loop of date k ran to its end
RaceLoopOver(k) == HasRaces(k) /\ (n > k \/ (pc = "races" /\ race_idx > Len(sorted_race_urls)))

\* C3: the race pages of a meet are loaded in ascending race number (none or
\* non-digit counts as 0, so such URLs come before every numbered one); no URL is
\* loaded twice in the race loop, and when the loop is over the URLs loaded are
\* the landing URL and the distinct race links, each once.
C3_AscendingRaceNumbers ==
    \A k \in Days :
        LET gets == RaceGets(k)
            no == RaceNoOf(k)
            loaded == {trace[i].url : i \in gets}
            wanted == UrlsToVisit(k)
        IN  /\ \A i, j \in gets :
                 i < j => /\ no[trace[i].url] <= no[trace[j].url]
                          /\ trace[i].url # trace[j].url
            /\ loaded \subseteq wanted
            /\ RaceLoopOver(k) =>
                 /\ loaded = wanted
                 /\ InitialUrl(DayDate(k)) \in loaded
                 /\ Cardinality(gets) = Cardinality(wanted)

\* links {3, 1, 2} are visited as [landing, 1, 2, 3]
C3_Witness ==
    /\ pc = "done"
    /\ \E i \in LandingGets(1) :
         trace[i].links = {Strftime(Dates[1], RaceLink(<<"3">>)),
                           Strftime(Dates[1], RaceLink(<<"1">>)),
                           Strftime(Dates[1], RaceLink(<<"2">>))}
    /\ \E a, b, c, d \in RaceGets(1) :
         /\ a < b /\ b < c /\ c < d
         /\ trace[a].url = InitialUrl(DayDate(1))
         /\ trace[b].url = Strftime(Dates[1], RaceLink(<<"1">>))
         /\ trace[c].url = Strftime(Dates[1], RaceLink(<<"2">>))
         /\ trace[d].url = Strftime(Dates[1], RaceLink(<<"3">>))

---------------------------------------------------------------------------
(* C4 *)

IsRaceGet(i) == trace[i].ev = "get" /\ trace[i].phase = "race"

\* the log line after line i is the sleep that follows the visit of line i
SleepFollows(i) ==
    /\ i < Len(trace)
    /\ trace[i + 1].ev = "sleep"
    /\ trace[i + 1].url = trace[i].url
    /\ trace[i + 1].day = trace[i].day

\* C4 as stated: a delay follows every race page visit, whether it ended in
\* extraction, in an extraction error or in a wait timeout.
C4_DelayAfterEveryVisit ==
    \A i \in DOMAIN trace :
        IsRaceGet(i) /\ trace[i].outcome \in {"ok", "error", "timeout"} => SleepFollows(i)

\* C4 amended: a delay follows every race page visit whose performance table
\* loaded, whether the extraction succeeded or raised; a visit that ends in a
\* wait timeout goes on to the next URL without the delay.
C4_DelayAfterLoadedVisit ==
    \A i \in DOMAIN trace :
        /\ IsRaceGet(i) /\ trace[i].outcome \in {"ok", "error"} => SleepFollows(i)
        /\ IsRaceGet(i) /\ trace[i].outcome = "timeout" =>
             (i = Len(trace) \/ trace[i + 1].ev # "sleep")

C4_Witness ==
    \E i, j, l \in DOMAIN trace :
        /\ IsRaceGet(i) /\ trace[i].outcome = "error" /\ SleepFollows(i)
        /\ IsRaceGet(j) /\ trace[j].outcome = "ok" /\ SleepFollows(j)
        /\ IsRaceGet(l) /\ trace[l].outcome = "timeout" /\ l < Len(trace)
        /\ IsRaceGet(l + 1)

---------------------------------------------------------------------------
(* C5 *)

\* C5 as stated: every unexpected failure during a meet's processing is caught,
\* no row of that meet is kept or written, and the run goes on to the next date.
C5_UnexpectedFailuresCaught ==
    /\ pc # "crashed"
    /\ \A k \in Days :
         (\E i \in LandingGets(k) \cup RaceGets(k) : trace[i].outcome = "error") =>
            /\ MeetWrites(k) = {}
            /\ \A i \in DOMAIN all_meets_data : all_meets_data[i].MeetDate # DayDate(k)

---------------------------------------------------------------------------
(* C6 *)

\* C6: a race page timeout skips that race only: it gives no row, the rows of
\* the earlier races are kept, the race loop goes on through every later URL and
\* the meet file is written with the rows gathered; a landing page timeout skips
\* only that date and the next log line belongs to the next date; no page is
\* loaded again after it timed out.
C6_TimeoutSkipsOneUnit ==
    /\ pc = "races" => Cardinality(RaceGets(n)) = race_idx - 1
    /\ \A k \in Days :
         /\ \A i \in RaceGets(k) :
              trace[i].outcome = "timeout" => KeptRowsOf(k, trace[i].url) = <<>>
         /\ RaceLoopOver(k) => Cardinality(RaceGets(k)) = Cardinality(UrlsToVisit(k))
         /\ HasRaces(k) /\ k <= n => Len(KeptRows(k)) = Emitted(k)
         /\ \A i \in LandingGets(k) :
              trace[i].outcome = "timeout" =>
                 /\ n > k
                 /\ RaceGets(k) = {} /\ MeetWrites(k) = {} /\ LandingGets(k) = {i}
                 /\ i < Len(trace) => (k < Len(Dates) /\ trace[i + 1].day = k + 1)
    /\ \A i, j \in DOMAIN trace :
         (i < j /\ trace[i].ev = "get" /\ trace[i].outcome = "timeout" /\ trace[j].ev = "get")
            => ~(trace[j].day = trace[i].day /\ trace[j].url = trace[i].url)

\* a landing timeout on the first date; on the second, a first race page that
\* times out, a later one that is loaded and gives a row, and the meet file
\* written with that row
C6_Witness ==
    /\ pc = "done"
    /\ Len(Dates) >= 2
    /\ \E i \in LandingGets(1) : trace[i].outcome = "timeout"
    /\ \E i, j \in RaceGets(2) :
         /\ i < j
         /\ trace[i].outcome = "timeout"
         /\ trace[j].outcome = "ok" /\ trace[j].emitted = 1
    /\ \E w \in MeetWrites(2) : Len(writes[w].rows) = 1

---------------------------------------------------------------------------
(* C7 *)

\* the race links of the landing page of date k: k distinct race pages
RaceLinks(k) == UrlsToVisit(k) \ {InitialUrl(DayDate(k))}

\* every race link of date k was loaded and rendered rows full rows and no other
EachRacePageRenders(k, rows) ==
    \A u \in RaceLinks(k) :
        \E i \in RaceGets(k) :
            /\ trace[i].url = u
            /\ trace[i].outcome = "ok"
            /\ Len(trace[i].body) = rows /\ FullRows(trace[i].body) = rows

\* the rows of the meet file of date k carry its MeetDate and the URL of the page
\* they come from: url by url, in visiting order, as many as that visit gave
RowsTagged(k, rows) ==
    /\ \A r \in DOMAIN rows : rows[r].MeetDate = DayDate(k)
    /\ k = 1 => \A r \in DOMAIN rows :
                   rows[r].MeetDate = <<"0", "1", "/", "0", "1", "/", "2", "0", "1", "9">>
    /\ \A r \in DOMAIN rows : \E i \in RaceGets(k) : trace[i].url = rows[r].RaceURL
    /\ \A i \in RaceGets(k) :
         Cardinality({r \in DOMAIN rows : rows[r].RaceURL = trace[i].url}) = trace[i].emitted
    /\ \A r, q \in DOMAIN rows :
         r < q => \E i, j \in RaceGets(k) :
                     i <= j /\ trace[i].url = rows[r].RaceURL /\ trace[j].url = rows[q].RaceURL

\* the rows the landing URL gave when the race loop loaded it as a race page
LandingRows(k) ==
    LET own == {i \in RaceGets(k) : trace[i].url = InitialUrl(DayDate(k))}
    IN  IF own = {} THEN 0 ELSE trace[CHOOSE i \in own : TRUE].emitted

\* C7 as stated: a single-date run over a race day with links to k race pages,
\* each rendering rows full rows, writes a meet file of exactly k * rows rows,
\* each with the date's MeetDate and the URL of its page.
C7_MeetFileHoldsLinkedRows ==
    (pc = "done" /\ Len(Dates) = 1 /\ HasRaces(1) /\ RaceLinks(1) # {}) =>
        \A rows \in 1..MeetMaxRows :
            EachRacePageRenders(1, rows) =>
                \E w \in MeetWrites(1) :
                    /\ Len(writes[w].rows) = Cardinality(RaceLinks(1)) * rows
                    /\ RowsTagged(1, writes[w].rows)

\* C7 amended: such a run writes a meet file of k * rows rows plus the rows the
\* landing URL itself gave when the race loop loaded it as the first race page
\* (none if that load timed out), each row with the date's MeetDate and the URL
\* of the page it was extracted from.
C7_MeetFileHoldsVisitedRows ==
    (pc = "done" /\ Len(Dates) = 1 /\ HasRaces(1) /\ RaceLinks(1) # {}) =>
        \A rows \in 1..MeetMaxRows :
            EachRacePageRenders(1, rows) =>
                /\ Cardinality(MeetWrites(1)) = 1
                /\ \A w \in MeetWrites(1) :
                     /\ Len(writes[w].rows) = Cardinality(RaceLinks(1)) * rows + LandingRows(1)
                     /\ RowsTagged(1, writes[w].rows)
                     /\ \A u \in RaceLinks(1) :
                          Cardinality({r \in DOMAIN writes[w].rows :
                                          writes[w].rows[r].RaceURL = u}) = rows

\* links RaceNo=1 and RaceNo=2 with 3 rows each, the landing URL timing out in the
\* race loop: 6 rows
C7_Witness ==
    /\ pc = "done"
    /\ RaceLinks(1) = {Strftime(Dates[1], RaceLink(<<"1">>)), Strftime(Dates[1], RaceLink(<<"2">>))}
    /\ EachRacePageRenders(1, 3)
    /\ LandingRows(1) = 0
    /\ \E w \in MeetWrites(1) : Len(writes[w].rows) = 6

---------------------------------------------------------------------------
(* C8 *)

\* the Placing texts of a sequence of rows
Placings(rows) == [r \in DOMAIN rows |-> rows[r].Placing]

\* C8: of the body rows of a loaded race page, a row of fewer than 12 cells gives
\* no horse row and does not stop the rows after it, a row of 12 or more cells
\* gives exactly one: the race adds as many rows as it has body rows of at least
\* 12 cells, one for each such row, in table order.
C8_OneRowPerFullBodyRow ==
    \A k \in Days : k <= n =>
        \A i \in RaceGets(k) :
            trace[i].outcome = "ok" =>
                LET body == trace[i].body
                    got == Placings(KeptRowsOf(k, trace[i].url))
                IN  /\ Len(got) = FullRows(body)
                    /\ trace[i].emitted = FullRows(body)
                    /\ \A r \in DOMAIN body :
                         Cardinality({g \in DOMAIN got : got[g] = <<DigitChar[r + 1]>>})
                            = IF body[r].cells < 12 THEN 0 ELSE 1
                    /\ \A g, h \in DOMAIN got : g < h => DigitVal(got[g][1]) < DigitVal(got[h][1])

\* a table of an 11-cell row between a 12-cell row and a 13-cell row: rows 1 and 3
C8_Witness ==
    \E i \in RaceGets(1) :
        /\ trace[i].outcome = "ok"
        /\ Len(trace[i].body) = 3
        /\ trace[i].body[1].cells = 12 /\ trace[i].body[2].cells = 11 /\ trace[i].body[3].cells = 13
        /\ Placings(KeptRowsOf(1, trace[i].url)) = << <<"1">>, <<"3">> >>

---------------------------------------------------------------------------
(* C9 *)

\* the value the claim gives the field read at xpath x of the info table: its
\* text when the cell is there, "N/A" when the cell or the whole table is not
ClaimedField(info, x) == IF info.table /\ x \in info.found THEN <<x>> ELSE <<"N/A">>

\* C9: each of the five race fields is resolved on its own, "N/A" when its cell
\* (or the whole info table) is missing and its text otherwise, and whatever is
\* missing the horse rows of the race are extracted and carry those values.
C9_FieldsResolvedIndependently ==
    \A k \in Days : k <= n =>
        \A i \in RaceGets(k) :
            trace[i].outcome \in {"ok", "error"} =>
                LET rows == KeptRowsOf(k, trace[i].url)
                IN  /\ Len(rows) = trace[i].emitted
                    /\ trace[i].outcome = "ok" => Len(rows) = FullRows(trace[i].body)
                    /\ \A r \in DOMAIN rows :
                         /\ rows[r].RaceHeader = ClaimedField(trace[i].info, XHeader)
                         /\ rows[r].RaceDetails = ClaimedField(trace[i].info, XDetails)
                         /\ rows[r].RaceSpecificName = ClaimedField(trace[i].info, XSpecificName)
                         /\ rows[r].RaceGoing = ClaimedField(trace[i].info, XGoing)
                         /\ rows[r].RaceCourse = ClaimedField(trace[i].info, XCourse)

\* an info table without its going cell, and after it a page without info table
C9_Witness ==
    /\ pc = "done"
    /\ \E i, j \in RaceGets(1) :
         /\ i < j
         /\ trace[i].info = InfoTable(TRUE, InfoCells \ {XGoing})
         /\ trace[j].info = InfoTable(FALSE, {})
         /\ \E r \in DOMAIN KeptRowsOf(1, trace[i].url) :
              /\ KeptRowsOf(1, trace[i].url)[r].RaceGoing = <<"N/A">>
              /\ KeptRowsOf(1, trace[i].url)[r].RaceHeader = <<XHeader>>
              /\ KeptRowsOf(1, trace[i].url)[r].RaceCourse = <<XCourse>>
         /\ \E r \in DOMAIN KeptRowsOf(1, trace[j].url) :
              KeptRowsOf(1, trace[j].url)[r].RaceHeader = <<"N/A">>

---------------------------------------------------------------------------
(* C10 *)

CombinedWrites == {i \in DOMAIN writes : writes[i].file = CombinedFilename}

\* the rows of the meet files written during the run, in ascending date order
RECURSIVE MeetRowsFrom(_)
MeetRowsFrom(k) ==
    IF k > Len(Dates) THEN <<>> ELSE KeptRows(k) \o MeetRowsFrom(k + 1)

\* C10: when the date loop completes, the combined file is written exactly when
\* a meet file was written during the run, its rows are the rows of those meet
\* files in ascending date order, and dates whose meet file was already on disk
\* give it no row: a run over dates that all have their file writes no combined
\* file.
C10_CombinedFile ==
    pc = "done" =>
        /\ Cardinality(CombinedWrites) <= 1
        /\ CombinedWrites # {} <=> (\E k \in Days : MeetWrites(k) # {})
        /\ \A w \in CombinedWrites :
             /\ w = Len(writes)
             /\ writes[w].rows = MeetRowsFrom(1)
             /\ \A r \in DOMAIN writes[w].rows :
                  \A k \in Days : DayFile(k) \in disk0 => writes[w].rows[r].MeetDate # DayDate(k)
        /\ (\A k \in Days : DayFile(k) \in disk0) => CombinedWrites = {}

\* two meets written, and the combined file with the rows of both
C10_Witness ==
    /\ pc = "done"
    /\ Len(Dates) >= 2
    /\ MeetWrites(1) # {} /\ MeetWrites(2) # {}
    /\ \E w \in CombinedWrites : Len(writes[w].rows) = Len(KeptRows(1)) + Len(KeptRows(2))

===========================================================================
